---- MODULE Spec2Model ----
(***************************************************************************)
(* A model of scripts/import_flow_xlsx.py: the one-shot importer that      *)
(* resolves a user by email, transforms six workbook sheets into records   *)
(* and POSTs them to the store in chunks of 200.                           *)
(*                                                                         *)
(* Values.  A spreadsheet cell is a record [t, v]: t is the Python type    *)
(* the reader hands over ("none", "nan" for float NaN, "num", "str", "ts"  *)
(* for pandas.Timestamp) and v the value.  Text is a sequence of one-      *)
(* character strings.  An ISO-8601 timestamp string is the record of the   *)
(* fields it spells: <<date, h, m, s, us, off>>, off being the offset      *)
(* suffix as written: <<>> (none), <<"Z">> or <<sign, hh, mm>>.            *)
(***************************************************************************)
EXTENDS Integers, Sequences, FiniteSets, Bags, TLC

VARIABLES
    env,        \* which of SUPABASE_URL, SUPABASE_SERVICE_ROLE_KEY, FLOW_USER_EMAIL are set
    workbook,   \* sheet name -> sequence of raw rows; absent sheets are not in the domain
    pc,         \* position of the script
    user_id,    \* module-level user_id, NoUser before line 96 has run
    opened,     \* pd.ExcelFile(XLSX_PATH) has run
    parsed,     \* sheets handed to xl.parse in this run, in order
    sheet,      \* index in SheetOrder of the block the script is at
    table,      \* the table argument of the latest post_rows call, NoTable before the first
    rows,       \* its rows argument
    i,          \* the loop variable of post_rows
    net,        \* requests sent and not yet answered
    log,        \* requests sent in this run, in order
    store,      \* table -> bag of stored records (the remote store)
    printed,    \* 'Import complete' was printed in this run
    completed,  \* runs that ended with 'Import complete'
    aborted,    \* runs that ended with an uncaught exception or SystemExit
    error,      \* the message the run died with, NoError while it has not
    call,       \* inputs of a direct call of a function under test
    ret         \* <<its result>>, NoRet before the call

vars == <<env, workbook, pc, user_id, opened, parsed, sheet, table, rows, i, net, log,
          store, printed, completed, aborted, error, call, ret>>

runVars == <<env, workbook, pc, user_id, opened, parsed, sheet, table, rows, i, net, log,
             store, printed, completed, aborted, error>>

-----------------------------------------------------------------------------
(* Bounds *)

MaxRuns == 2        \* invocations of the script against the same store
MaxDate == 2        \* calendar days 1..MaxDate in timestamp inputs
MaxRows == 401      \* rows of the largest sheet of a workbook

-----------------------------------------------------------------------------
(* Cells and clean() *)

None == [t |-> "none", v |-> <<>>]
NaN == [t |-> "nan", v |-> <<>>]
Num(n) == [t |-> "num", v |-> n]
Str(s) == [t |-> "str", v |-> s]
Timestamp(iso) == [t |-> "ts", v |-> iso]

\* clean(value), lines 56-63
clean(value) ==
    IF value.t = "none" THEN None
    ELSE IF value.t = "nan" THEN None
    ELSE IF value.t = "ts" THEN Str(value.v)
    ELSE value

\* Python truth value of a cleaned cell: None, 0 and '' are false
Truthy(value) ==
    CASE value.t = "none" -> FALSE
      [] value.t = "num" -> value.v # 0
      [] value.t = "str" -> value.v # <<>>
      [] OTHER -> TRUE

-----------------------------------------------------------------------------
(* normalize_minute and build_idem *)

\* one character lower-cased (str.lower on the alphabet of the inputs)
LowerChar(c) ==
    CASE c = "A" -> "a"
      [] c = "B" -> "b"
      [] c = "H" -> "h"
      [] OTHER -> c

Whitespace == {" ", "\t", "\n"}

RECURSIVE StripWs(_)
\* ''.join(s.split()): s without its whitespace characters
StripWs(s) ==
    IF s = <<>> THEN <<>>
    ELSE IF Head(s) \in Whitespace THEN StripWs(Tail(s))
    ELSE <<Head(s)>> \o StripWs(Tail(s))

Lower(s) == [k \in 1..Len(s) |-> LowerChar(s[k])]

IdemPrefix == 100

Prefix(s, n) == SubSeq(s, 1, IF Len(s) < n THEN Len(s) ELSE n)

\* the ISO-8601 string spelling these fields
Iso(date, h, m, s, us, off) == <<date, h, m, s, us, off>>

\* ts.replace('Z', '+00:00')
ReplaceZ(ts) ==
    IF ts[6] = <<"Z">> THEN [ts EXCEPT ![6] = <<"+", 0, 0>>] ELSE ts

\* datetime.fromisoformat: date, hour, minute, second, microsecond and tzinfo
\* (minutes east of UTC, <<>> for a naive datetime)
fromisoformat(str) ==
    [date |-> str[1], hour |-> str[2], minute |-> str[3], second |-> str[4],
     microsecond |-> str[5],
     tzinfo |-> IF str[6] = <<>> THEN <<>>
                ELSE <<(IF str[6][1] = "-" THEN -1 ELSE 1) * (str[6][2] * 60 + str[6][3])>>]

\* datetime.isoformat()[:16]: 'YYYY-MM-DDTHH:MM', the fields as the datetime
\* holds them; seconds and the offset come after the sixteenth character
isoformat16(dt) == <<dt.date, dt.hour, dt.minute>>

\* normalize_minute cutting the string after the seconds
normalize_minute_to_second(ts) ==
    LET dt == fromisoformat(ReplaceZ(ts))
    IN <<dt.date, dt.hour, dt.minute, dt.second>>

\* normalize_minute(ts), lines 66-68
normalize_minute(ts) ==
    LET dt == fromisoformat(ReplaceZ(ts))
    IN isoformat16([dt EXCEPT !.second = 0, !.microsecond = 0])

\* hashlib.sha256(...).hexdigest(): a function of its input, taken to be
\* collision-free
sha256(base) == <<"sha256", base>>

\* build_idem(sms, ts), lines 71-74
build_idem(sms, ts) ==
    LET content == Prefix(Lower(StripWs(sms)), IdemPrefix)
        base == <<content, "|", normalize_minute(ts)>>
    IN sha256(base)

-----------------------------------------------------------------------------
(* The sheet blocks, lines 100-212 *)

\* the MerchantMap block moved above the RawLedger block
SheetOrder_swapped ==
    <<"MerchantMap", "RawLedger", "FXRates", "UserContext", "Recipients", "Insights">>

SheetOrder == <<"RawLedger", "MerchantMap", "FXRates", "UserContext", "Recipients", "Insights">>

\* the table each block posts to
TableOf(name) ==
    CASE name = "RawLedger" -> "raw_ledger"
      [] name = "MerchantMap" -> "merchant_map"
      [] name = "FXRates" -> "fx_rates"
      [] name = "UserContext" -> "user_context"
      [] name = "Recipients" -> "recipients"
      [] name = "Insights" -> "insights"

\* no block passing on_conflict
OnConflictOf_none(name) == <<>>

\* the append-only blocks passing on_conflict='user_id' too
OnConflictOf_all(name) ==
    CASE name = "RawLedger" -> <<"user_id", "idempotency_key">>
      [] name = "MerchantMap" -> <<"user_id", "pattern">>
      [] name = "FXRates" -> <<"user_id", "currency">>
      [] OTHER -> <<"user_id">>

\* the on_conflict argument of each block's post_rows call; <<>> is None
OnConflictOf(name) ==
    CASE name = "RawLedger" -> <<"user_id", "idempotency_key">>
      [] name = "MerchantMap" -> <<"user_id", "pattern">>
      [] name = "FXRates" -> <<"user_id", "currency">>
      [] OTHER -> <<>>

IsNone(value) == value.t = "none"

Digit == <<"0", "1", "2", "3", "4", "5", "6", "7", "8", "9">>

RECURSIVE Digits(_)
\* the decimal digits of a number n >= 0
Digits(n) == IF n < 10 THEN <<Digit[n + 1]>> ELSE Digits(n \div 10) \o <<Digit[(n % 10) + 1]>>

\* `x or default`
OrElse(value, default) == IF Truthy(value) THEN value ELSE default

\* lines 105-123: one RawLedger row, <<>> when the row is skipped
LedgerRecord(uid, r) ==
    LET ts == clean(r.Timestamp)
        raw_text == OrElse(clean(r.RawText), Str(<<>>))
    IN IF ~Truthy(ts) THEN <<>>
       ELSE <<[user_id |-> uid,
               txn_timestamp |-> ts,
               amount |-> IF ~IsNone(clean(r.Amount)) THEN r.Amount ELSE None,
               currency |-> OrElse(clean(r.Currency), Str(<<"Q", "A", "R">>)),
               counterparty |-> clean(r.Counterparty),
               card |-> clean(r.Card),
               direction |-> clean(r.Direction),
               txn_type |-> clean(r.TxnType),
               raw_text |-> raw_text,
               net |-> clean(r.NET),
               idempotency_key |-> build_idem(raw_text.v, ts.v),
               source |-> Str(<<"i", "m", "p", "o", "r", "t">>)]>>

\* lines 131-140
MerchantRecord(uid, r) ==
    LET pattern == clean(r.Pattern)
    IN IF ~Truthy(pattern) THEN <<>>
       ELSE <<[user_id |-> uid,
               pattern |-> Str(Lower(pattern.v)),
               display_name |-> clean(r.DisplayName),
               consolidated_name |-> clean(r.ConsolidatedName),
               category |-> clean(r.Category)]>>

\* lines 148-156
FxRecord(uid, r) ==
    LET currency == clean(r.Currency)
    IN IF ~Truthy(currency) THEN <<>>
       ELSE <<[user_id |-> uid,
               currency |-> currency,
               rate_to_qar |-> clean(r.RateToQAR),
               formula |-> clean(r.Formula)]>>

\* lines 164-175
ContextRecord(uid, r) ==
    LET type_val == clean(r.Type)
    IN IF ~Truthy(type_val) THEN <<>>
       ELSE <<[user_id |-> uid,
               type |-> type_val,
               key |-> clean(r.Key),
               value |-> clean(r.Value),
               details |-> clean(r.Details),
               date_added |-> clean(r.DateAdded),
               source |-> clean(r.Source)]>>

\* str(phone): a number spelled in digits, a string as it is
PyStr(value) == IF value.t = "num" THEN Str(Digits(value.v)) ELSE value

\* lines 183-195
RecipientRecord(uid, r) ==
    LET phone == clean(r.Phone)
        bank == clean(r.BankAccount)
        short == clean(r.ShortName)
        long == clean(r.LongName)
    IN IF ~(Truthy(phone) \/ Truthy(bank) \/ Truthy(short) \/ Truthy(long)) THEN <<>>
       ELSE <<[user_id |-> uid,
               phone |-> IF ~IsNone(phone) THEN PyStr(phone) ELSE None,
               bank_account |-> bank,
               short_name |-> short,
               long_name |-> long]>>

\* lines 203-211
InsightRecord(uid, r) ==
    LET date == clean(r.Date)
        insights == clean(r.Insights)
    IN IF ~Truthy(date) \/ ~Truthy(insights) THEN <<>>
       ELSE <<[user_id |-> uid, date |-> date, insights |-> insights]>>

RecordOf(name, uid, r) ==
    CASE name = "RawLedger" -> LedgerRecord(uid, r)
      [] name = "MerchantMap" -> MerchantRecord(uid, r)
      [] name = "FXRates" -> FxRecord(uid, r)
      [] name = "UserContext" -> ContextRecord(uid, r)
      [] name = "Recipients" -> RecipientRecord(uid, r)
      [] name = "Insights" -> InsightRecord(uid, r)

RECURSIVE TransformRange(_, _, _, _, _)
\* the records of the kept rows among df[lo..hi], in sheet order
TransformRange(name, uid, df, lo, hi) ==
    IF lo > hi THEN <<>>
    ELSE IF lo = hi THEN RecordOf(name, uid, df[lo])
    ELSE LET mid == (lo + hi) \div 2
         IN TransformRange(name, uid, df, lo, mid) \o TransformRange(name, uid, df, mid + 1, hi)

\* the `for _, r in df.iterrows()` loop of a block: rows.append for each kept
\* row, in sheet order
Transform(name, uid, df) == TransformRange(name, uid, df, 1, Len(df))

-----------------------------------------------------------------------------
(* Workbooks the script is run against *)

Text(s) == Str(s)

LedgerRow(ts, text, amount) ==
    [Timestamp |-> ts, RawText |-> text, Amount |-> amount, Currency |-> NaN,
     Counterparty |-> Text(<<"A", "B">>), Card |-> NaN, Direction |-> Text(<<"O", "U", "T">>),
     TxnType |-> NaN, NET |-> Num(1)]

\* three ledger rows that are all kept; the first two differ in case, spacing
\* and seconds only
LedgerKept ==
    <<LedgerRow(Timestamp(Iso(1, 10, 7, 42, 0, <<>>)), Text(<<"H", "i", " ", "A">>), Num(5)),
      LedgerRow(Text(Iso(1, 10, 7, 59, 0, <<"Z">>)), Text(<<"h", "i", "a">>), NaN),
      LedgerRow(Timestamp(Iso(1, 10, 8, 0, 0, <<>>)), NaN, Num(7))>>

LedgerSkipped == LedgerRow(NaN, Text(<<"b">>), Num(1))

MerchantRow(pattern, name) ==
    [Pattern |-> pattern, DisplayName |-> name, ConsolidatedName |-> NaN, Category |-> NaN]

MerchantRows ==
    <<MerchantRow(Text(<<"A", "b">>), Text(<<"A">>)),
      MerchantRow(NaN, Text(<<"B">>)),
      MerchantRow(Text(<<"a", "b">>), Text(<<"B">>)),
      MerchantRow(Text(<<"b">>), NaN)>>

FxRow(currency, rate) == [Currency |-> currency, RateToQAR |-> rate, Formula |-> NaN]

FxRows ==
    <<FxRow(Text(<<"U", "S", "D">>), Num(4)),
      FxRow(Text(<<>>), Num(1)),
      FxRow(Text(<<"U", "S", "D">>), Num(3))>>

ContextRow(type, key) ==
    [Type |-> type, Key |-> key, Value |-> Num(0), Details |-> NaN,
     DateAdded |-> Timestamp(Iso(1, 0, 0, 0, 0, <<>>)), Source |-> NaN]

ContextRows ==
    <<ContextRow(Text(<<"a">>), Text(<<"b">>)),
      ContextRow(Text(<<"a">>), Text(<<"b">>)),
      ContextRow(NaN, Text(<<"b">>))>>

RecipientRow(phone, bank, short, long) ==
    [Phone |-> phone, BankAccount |-> bank, ShortName |-> short, LongName |-> long]

RecipientKept ==
    <<RecipientRow(Num(5550), NaN, NaN, NaN),
      RecipientRow(NaN, NaN, Text(<<"A">>), Text(<<"A", "b">>))>>

RecipientRows == RecipientKept \o <<RecipientRow(NaN, NaN, NaN, NaN)>>

InsightRow(date, insights) == [Date |-> date, Insights |-> insights]

InsightRows ==
    <<InsightRow(Timestamp(Iso(1, 0, 0, 0, 0, <<>>)), Text(<<"a">>)),
      InsightRow(NaN, Text(<<"a">>)),
      InsightRow(Timestamp(Iso(2, 0, 0, 0, 0, <<>>)), NaN),
      InsightRow(Timestamp(Iso(1, 0, 0, 0, 0, <<>>)), Text(<<"a">>))>>

\* n rows repeating the rows of pal
Cycle(pal, n) == [k \in 1..n |-> pal[((k - 1) % Len(pal)) + 1]]

ChunkSize == 200

\* the sheets a workbook may hold under each name
SheetChoices(name) ==
    CASE name = "RawLedger" ->
            {<<>>, LedgerKept \o <<LedgerSkipped>>, Cycle(LedgerKept, MaxRows)}
      [] name = "MerchantMap" -> {MerchantRows}
      [] name = "FXRates" -> {FxRows}
      [] name = "UserContext" -> {ContextRows}
      [] name = "Recipients" -> {RecipientRows, Cycle(RecipientKept, MaxRows - ChunkSize)}
      [] name = "Insights" -> {InsightRows}

Sheets == {SheetOrder[k] : k \in 1..Len(SheetOrder)}

EnvVars == {"SUPABASE_URL", "SUPABASE_SERVICE_ROLE_KEY", "FLOW_USER_EMAIL"}

-----------------------------------------------------------------------------
(* Requests and the store *)

NoUser == "NoUser"
NoTable == "NoTable"
NoError == <<>>
NoRet == <<>>
TheUser == "u1"     \* the id the identity service holds for FLOW_USER_EMAIL

\* the GET of get_user_id, lines 42-46
LookupRequest ==
    [method |-> "GET", table |-> "auth/v1/admin/users", on_conflict |-> <<>>,
     prefer |-> "", body |-> <<>>]

\* rows[i:i+199]
Chunk_short(rs, k) ==
    SubSeq(rs, k + 1, IF k + ChunkSize - 1 < Len(rs) THEN k + ChunkSize - 1 ELSE Len(rs))

\* rows[i:i+200]
Chunk(rs, k) == SubSeq(rs, k + 1, IF k + ChunkSize < Len(rs) THEN k + ChunkSize ELSE Len(rs))

\* the Prefer header added under `if on_conflict:` as well
InsertRequest_prefer_if_conflict(tbl, on_conflict, chunk) ==
    [method |-> "POST", table |-> tbl,
     on_conflict |-> IF on_conflict # <<>> THEN on_conflict ELSE <<>>,
     prefer |-> IF on_conflict # <<>> THEN "resolution=merge-duplicates" ELSE "",
     body |-> chunk]

\* the request post_rows builds for one chunk, lines 80-88: on_conflict is in
\* the URL when the argument is given, the Prefer header on every request
InsertRequest(tbl, on_conflict, chunk) ==
    [method |-> "POST", table |-> tbl,
     on_conflict |-> IF on_conflict # <<>> THEN on_conflict ELSE <<>>,
     prefer |-> "resolution=merge-duplicates", body |-> chunk]

\* the values of a record in the columns of a constraint
KeyOf(rec, cols) == [c \in {cols[k] : k \in 1..Len(cols)} |-> rec[c]]

\* the store serving one POST.  Without on_conflict columns every record of
\* the body is added.  With them the records are merged one after the other:
\* a record replaces the stored record with the same values in those
\* columns, so of the records of the body sharing a key the last one stays
StoreAll(bag, recs, cols) ==
    IF cols = <<>>
    THEN bag (+) [x \in {recs[k] : k \in 1..Len(recs)} |->
                     Cardinality({k \in 1..Len(recs) : recs[k] = x})]
    ELSE LET keys == {KeyOf(recs[k], cols) : k \in 1..Len(recs)}
             last(key) ==
                 LET ks == {k \in 1..Len(recs) : KeyOf(recs[k], cols) = key}
                 IN recs[CHOOSE k \in ks : \A j \in ks : j <= k]
             others == {x \in DOMAIN bag : KeyOf(x, cols) \notin keys}
         IN [x \in others |-> bag[x]] (+) SetToBag({last(key) : key \in keys})

-----------------------------------------------------------------------------
(* One invocation of the script after another, against the same store *)

Tables == {TableOf(n) : n \in Sheets}

Workbooks ==
    {[n \in P |-> CASE n = "RawLedger" -> a
                   [] n = "MerchantMap" -> b
                   [] n = "FXRates" -> c
                   [] n = "UserContext" -> d
                   [] n = "Recipients" -> e
                   [] n = "Insights" -> f] :
        P \in SUBSET Sheets,
        a \in SheetChoices("RawLedger"), b \in SheetChoices("MerchantMap"),
        c \in SheetChoices("FXRates"), d \in SheetChoices("UserContext"),
        e \in SheetChoices("Recipients"), f \in SheetChoices("Insights")}

\* the interpreter at the first line of the script
Fresh ==
    /\ pc = "start"
    /\ user_id = NoUser
    /\ opened = FALSE
    /\ parsed = <<>>
    /\ sheet = 0
    /\ table = NoTable
    /\ rows = <<>>
    /\ i = 0
    /\ net = {}
    /\ log = <<>>
    /\ printed = FALSE
    /\ error = NoError

Init ==
    /\ env \in [EnvVars -> BOOLEAN]
    /\ workbook \in Workbooks
    /\ Fresh
    /\ store = [t \in Tables |-> EmptyBag]
    /\ completed = 0
    /\ aborted = 0
    /\ call = <<>>
    /\ ret = NoRet

\* an uncaught exception or SystemExit: the interpreter exits
Die(msg) ==
    /\ pc' = "failed"
    /\ error' = msg
    /\ aborted' = aborted + 1

\* the check of line 14 left out
ConfigCheck_unchecked ==
    /\ pc = "start"
    /\ pc' = "get_user_id"
    /\ UNCHANGED <<env, workbook, user_id, opened, parsed, sheet, table, rows, i, net, log,
                   store, printed, completed, aborted, error, call, ret>>

\* lines 9-15: the environment is read and checked
ConfigCheck ==
    /\ pc = "start"
    /\ IF \E x \in EnvVars : ~env[x]
       THEN Die(<<"Missing SUPABASE_URL, SUPABASE_SERVICE_ROLE_KEY, or FLOW_USER_EMAIL">>)
       ELSE /\ pc' = "get_user_id"
            /\ UNCHANGED <<error, aborted>>
    /\ UNCHANGED <<env, workbook, user_id, opened, parsed, sheet, table, rows, i, net, log,
                   store, printed, completed, call, ret>>

\* line 96 -> lines 42-46: get_user_id sends its GET
SendLookup ==
    /\ pc = "get_user_id"
    /\ net' = net \cup {LookupRequest}
    /\ log' = Append(log, LookupRequest)
    /\ pc' = "lookup_wait"
    /\ UNCHANGED <<env, workbook, user_id, opened, parsed, sheet, table, rows, i,
                   store, printed, completed, aborted, error, call, ret>>

LookupOutcomes == {"ok", "status", "no_users", "exception"}

\* lines 33-38, 47-53 and 98: the answer to the GET; on success the user id
\* is bound and the workbook opened
LookupReply(outcome) ==
    /\ pc = "lookup_wait"
    /\ net' = net \ {LookupRequest}
    /\ CASE outcome = "ok" ->
              /\ user_id' = TheUser
              /\ opened' = TRUE
              /\ sheet' = 1
              /\ pc' = "sheet"
              /\ UNCHANGED <<error, aborted>>
         [] outcome = "status" ->
              /\ Die(<<"User lookup failed">>)
              /\ UNCHANGED <<user_id, opened, sheet>>
         [] outcome = "no_users" ->
              /\ Die(<<"No user found for", "FLOW_USER_EMAIL">>)
              /\ UNCHANGED <<user_id, opened, sheet>>
         [] outcome = "exception" ->
              /\ Die(<<"HTTP GET failed">>)
              /\ UNCHANGED <<user_id, opened, sheet>>
    /\ UNCHANGED <<env, workbook, parsed, table, rows, i, log, store, printed, completed,
                   call, ret>>

\* one sheet block up to the loop of its post_rows call (lines 101-124 and
\* alike, 77-82): an absent sheet is passed over, a present one parsed and
\* transformed, and post_rows returns at once when no row was kept
Block ==
    /\ pc = "sheet"
    /\ sheet <= Len(SheetOrder)
    /\ LET name == SheetOrder[sheet]
       IN IF name \notin DOMAIN workbook
          THEN /\ sheet' = sheet + 1
               /\ UNCHANGED <<pc, parsed, table, rows, i>>
          ELSE LET rs == Transform(name, user_id, workbook[name])
               IN /\ parsed' = Append(parsed, name)
                  /\ table' = TableOf(name)
                  /\ rows' = rs
                  /\ i' = 0
                  /\ IF rs = <<>>
                     THEN sheet' = sheet + 1 /\ pc' = pc
                     ELSE sheet' = sheet /\ pc' = "post"
    /\ UNCHANGED <<env, workbook, user_id, opened, net, log, store, printed, completed,
                   aborted, error, call, ret>>

\* lines 84-90: the chunk at i is sent
SendChunk ==
    /\ pc = "post"
    /\ LET req == InsertRequest(table, OnConflictOf(SheetOrder[sheet]), Chunk(rows, i))
       IN /\ net' = net \cup {req}
          /\ log' = Append(log, req)
    /\ pc' = "await"
    /\ UNCHANGED <<env, workbook, user_id, opened, parsed, sheet, table, rows, i,
                   store, printed, completed, aborted, error, call, ret>>

\* lines 90-91 and 83: the store has served the request; the loop goes on
\* to the next chunk, or post_rows returns
ChunkOk ==
    /\ pc = "await"
    /\ \E req \in net :
          /\ store' = [store EXCEPT ![req.table] = StoreAll(@, req.body, req.on_conflict)]
          /\ net' = net \ {req}
    /\ i' = i + ChunkSize
    /\ IF i + ChunkSize < Len(rows)
       THEN pc' = "post" /\ sheet' = sheet
       ELSE pc' = "sheet" /\ sheet' = sheet + 1
    /\ UNCHANGED <<env, workbook, user_id, opened, parsed, table, rows, log,
                   printed, completed, aborted, error, call, ret>>

\* the exception caught around the block: the error is kept and the script
\* goes on with the next block
ChunkFail_continue ==
    /\ pc = "await"
    /\ \E req \in net : net' = net \ {req}
    /\ error' = <<"Insert failed for", table>>
    /\ pc' = "sheet"
    /\ sheet' = sheet + 1
    /\ UNCHANGED <<env, workbook, user_id, opened, parsed, table, rows, i, log,
                   store, printed, completed, aborted, call, ret>>

\* the rows of the table deleted again before the exception is raised
ChunkFail_rollback ==
    /\ pc = "await"
    /\ \E req \in net : net' = net \ {req}
    /\ store' = [store EXCEPT ![table] = EmptyBag]
    /\ Die(<<"Insert failed for", table>>)
    /\ UNCHANGED <<env, workbook, user_id, opened, parsed, sheet, table, rows, i, log,
                   printed, completed, call, ret>>

\* lines 92-93: urlopen raised; the store has not taken the chunk
ChunkFail ==
    /\ pc = "await"
    /\ \E req \in net : net' = net \ {req}
    /\ Die(<<"Insert failed for", table>>)
    /\ UNCHANGED <<env, workbook, user_id, opened, parsed, sheet, table, rows, i, log,
                   store, printed, completed, call, ret>>

\* line 214
Finish ==
    /\ pc = "sheet"
    /\ sheet > Len(SheetOrder)
    /\ printed' = TRUE
    /\ pc' = "done"
    /\ completed' = completed + 1
    /\ UNCHANGED <<env, workbook, user_id, opened, parsed, sheet, table, rows, i, net, log,
                   store, aborted, error, call, ret>>

\* the operator invokes the script again: same environment, same workbook,
\* the store as the earlier runs left it
Rerun ==
    /\ pc \in {"done", "failed"}
    /\ completed + aborted < MaxRuns
    /\ pc' = "start"
    /\ user_id' = NoUser
    /\ opened' = FALSE
    /\ parsed' = <<>>
    /\ sheet' = 0
    /\ table' = NoTable
    /\ rows' = <<>>
    /\ i' = 0
    /\ net' = {}
    /\ log' = <<>>
    /\ printed' = FALSE
    /\ error' = NoError
    /\ UNCHANGED <<env, workbook, store, completed, aborted, call, ret>>

Next ==
    \/ ConfigCheck
    \/ SendLookup
    \/ \E outcome \in LookupOutcomes : LookupReply(outcome)
    \/ Block
    \/ SendChunk
    \/ ChunkOk
    \/ ChunkFail
    \/ Finish
    \/ Rerun

Spec == Init /\ [][Next]_vars

-----------------------------------------------------------------------------
(* Direct calls of build_idem and of the Recipients block *)

\* the script not running: no workbook, nothing sent, an empty store
Idle ==
    /\ env = [x \in EnvVars |-> TRUE]
    /\ workbook = <<>>
    /\ Fresh
    /\ store = [t \in Tables |-> EmptyBag]
    /\ completed = 0
    /\ aborted = 0

IdemTexts == {<<"H", "i", " ", "A">>, <<"h", "i", "a">>, <<"b">>}

Offsets == {<<>>, <<"Z">>, <<"+", 0, 0>>, <<"+", 2, 0>>}

IsoStrings ==
    {Iso(d, h, m, sec, us, off) :
        d \in 1..MaxDate, h \in {10, 12}, m \in {7, 8}, sec \in {0, 59}, us \in {0, 500000},
        off \in Offsets}

InitIdem ==
    /\ Idle
    /\ call \in [fn : {"build_idem"}, sms : IdemTexts, t1 : IsoStrings, t2 : IsoStrings]
    /\ ret = NoRet

\* build_idem(sms, t1) and build_idem(sms, t2)
CallBuildIdem ==
    /\ call.fn = "build_idem"
    /\ ret = NoRet
    /\ ret' = <<[k1 |-> build_idem(call.sms, call.t1), k2 |-> build_idem(call.sms, call.t2)]>>
    /\ UNCHANGED <<runVars, call>>

NextIdem == CallBuildIdem

SpecIdem == InitIdem /\ [][NextIdem]_vars

RecipientCells == {None, NaN, Num(0), Num(5550), Text(<<>>), Text(<<"A">>)}

InitRecipients ==
    /\ Idle
    /\ call \in [fn : {"Recipients"},
                 row : {RecipientRow(p, b, sh, lg) :
                           p \in RecipientCells, b \in RecipientCells,
                           sh \in RecipientCells, lg \in RecipientCells}]
    /\ ret = NoRet

\* the loop of lines 181-195 over a sheet holding the one row
CallRecipients ==
    /\ call.fn = "Recipients"
    /\ ret = NoRet
    /\ ret' = <<Transform("Recipients", TheUser, <<call.row>>)>>
    /\ UNCHANGED <<runVars, call>>

NextRecipients == CallRecipients

SpecRecipients == InitRecipients /\ [][NextRecipients]_vars

-----------------------------------------------------------------------------
(* Properties of build_idem (SpecIdem) *)

\* minutes east of UTC an offset suffix spells
OffsetMinutes(off) ==
    IF off = <<"Z">> THEN 0
    ELSE (IF off[1] = "-" THEN -1 ELSE 1) * (off[2] * 60 + off[3])

\* the timestamp string carries an offset
Aware(ts) == ts[6] # <<>>

\* the UTC minute of the instant an offset-carrying string denotes
UtcMinute(ts) == (ts[1] * 24 + ts[2]) * 60 + ts[3] - OffsetMinutes(ts[6])

SameUtcMinute ==
    /\ Aware(call.t1)
    /\ Aware(call.t2)
    /\ UtcMinute(call.t1) = UtcMinute(call.t2)

\* C6 as stated: for the same text and two offset-carrying timestamps in the
\* same UTC minute, whatever their seconds, sub-second part and offset
\* notation, build_idem returns the same key.
C6_AnyOffset ==
    (ret # NoRet /\ SameUtcMinute) => ret[1].k1 = ret[1].k2

\* C6 amended: for the same text and two offset-carrying timestamps in the
\* same UTC minute that are written with the same whole-minute UTC offset
\* ('Z' and '+00:00' being the same offset), whatever their seconds and
\* sub-second part, build_idem returns the same key.
C6_SameOffset ==
    (/\ ret # NoRet
     /\ SameUtcMinute
     /\ OffsetMinutes(call.t1[6]) = OffsetMinutes(call.t2[6]))
        => ret[1].k1 = ret[1].k2

\* 'Z' against '+00:00', other seconds and microseconds, the same key
C6_Witness ==
    /\ ret # NoRet
    /\ call.t1[6] = <<"Z">>
    /\ call.t2[6] = <<"+", 0, 0>>
    /\ call.t1[4] # call.t2[4]
    /\ call.t1[5] # call.t2[5]
    /\ SameUtcMinute
    /\ ret[1].k1 = ret[1].k2

-----------------------------------------------------------------------------
(* Properties of the Recipients block (SpecRecipients) *)

\* a cell with no value: missing, NaN or the empty string
EmptyCell(c) == c.t \in {"none", "nan"} \/ (c.t = "str" /\ c.v = <<>>)

\* C8: a Recipients row is dropped if and only if phone, bank account, short
\* name and long name are all empty; a row with only a phone, numeric or
\* text, is emitted, its phone a string.
C8_DroppedIffAllEmpty ==
    ret # NoRet =>
        LET r == call.row
            allEmpty == /\ EmptyCell(r.Phone)
                        /\ EmptyCell(r.BankAccount)
                        /\ EmptyCell(r.ShortName)
                        /\ EmptyCell(r.LongName)
        IN /\ (ret[1] = <<>>) <=> allEmpty
           /\ (ret[1] # <<>> /\ ~EmptyCell(r.Phone)) => ret[1][1].phone.t = "str"

-----------------------------------------------------------------------------
(* Properties of a run (Spec) *)

IsPost(r) == r.method = "POST"
IsGet(r) == r.method = "GET"

\* the insert requests of this run, and those for one table
Posts == SelectSeq(log, IsPost)
PostsFor(t) == SelectSeq(log, LAMBDA r : r.method = "POST" /\ r.table = t)

\* the k-th slice of 200 of a list
Slice(rs, k) ==
    LET first == 200 * (k - 1) + 1
        last == IF 200 * k < Len(rs) THEN 200 * k ELSE Len(rs)
    IN [j \in 1..(last - first + 1) |-> rs[first + j - 1]]

\* post_rows has returned from its latest call
Returned == table # NoTable /\ pc \in {"sheet", "done"}

\* C1: the requests of a post_rows call are the consecutive slices of 200 of
\* its list, in order, one request per slice and never two in flight:
\* ceil(n/200) requests once it has returned, none for an empty list.
C1_ConsecutiveChunks ==
    table # NoTable =>
        LET sent == PostsFor(table)
            n == Len(rows)
        IN /\ \A k \in 1..Len(sent) : sent[k].body = Slice(rows, k)
           /\ Len(sent) <= (n + 199) \div 200
           /\ Returned => Len(sent) = (n + 199) \div 200
           /\ Cardinality(net) <= 1
           /\ pc = "post" => net = {}
           /\ pc = "await" => net = {sent[Len(sent)]}

\* 401 records were sent as 200, 200 and 1
C1_Witness ==
    /\ Returned
    /\ Len(rows) = 401
    /\ Len(PostsFor(table)) = 3
    /\ Len(PostsFor(table)[1].body) = 200
    /\ Len(PostsFor(table)[2].body) = 200
    /\ Len(PostsFor(table)[3].body) = 1

\* post_rows returned without a request for an empty list
C1_WitnessEmpty ==
    /\ Returned
    /\ rows = <<>>
    /\ PostsFor(table) = <<>>

\* the run died in post_rows
InsertFailed == error # NoError /\ error[1] = "Insert failed for"

FixedOrder ==
    <<"RawLedger", "MerchantMap", "FXRates", "UserContext", "Recipients", "Insights">>

FixedTables ==
    <<"raw_ledger", "merchant_map", "fx_rates", "user_context", "recipients", "insights">>

\* the place of a table in the fixed order
Place(t) == CHOOSE k \in 1..6 : FixedTables[k] = t

\* the sheets after the one the failed request belongs to, present and with
\* a row to import
LaterSheets ==
    {k \in (Place(error[2]) + 1)..6 :
        /\ FixedOrder[k] \in DOMAIN workbook
        /\ Transform(FixedOrder[k], TheUser, workbook[FixedOrder[k]]) # <<>>}

\* C2 as stated: after a failed chunk the sheets that come after it are
\* still imported (seen where the run has ended).
C2_LaterSheetsImported ==
    (InsertFailed /\ pc \in {"failed", "done"}) =>
        \A k \in LaterSheets : PostsFor(FixedTables[k]) # <<>>

\* C2 amended: after a failed chunk neither the later chunks of that sheet
\* nor any sheet after it is attempted: the failed request is the last one
\* of the run, and no later sheet is parsed or posted.
C2_NothingAfterFailedChunk ==
    InsertFailed =>
        /\ log[Len(log)].table = error[2]
        /\ log[Len(log)].body = Slice(rows, Len(PostsFor(error[2])))
        /\ \A k \in (Place(error[2]) + 1)..6 :
              /\ PostsFor(FixedTables[k]) = <<>>
              /\ \A j \in 1..Len(parsed) : parsed[j] # FixedOrder[k]

\* a chunk failed with chunks of its sheet and a later sheet still to come
C2_Witness ==
    /\ InsertFailed
    /\ 200 * Len(PostsFor(error[2])) < Len(rows)
    /\ LaterSheets # {}

RECURSIVE BodyRecords(_, _)
\* how many records the first k requests of the sequence carry
BodyRecords(reqs, k) == IF k = 0 THEN 0 ELSE Len(reqs[k].body) + BodyRecords(reqs, k - 1)

\* the record of an answered request is in the store: under its key when
\* the request named one, as a record of its own otherwise
Persisted(req, rec) ==
    IF req.on_conflict = <<>>
    THEN rec \in DOMAIN store[req.table]
    ELSE \E x \in DOMAIN store[req.table] :
            \A c \in {req.on_conflict[k] : k \in 1..Len(req.on_conflict)} : x[c] = rec[c]

\* every request of the run but the last has all its records persisted
AnsweredPersisted ==
    \A k \in 1..(Len(log) - 1) :
        IsPost(log[k]) => \A j \in 1..Len(log[k].body) : Persisted(log[k], log[k].body[j])

AppendOnly == {"user_context", "recipients", "insights"}
Constrained == {"raw_ledger", "merchant_map", "fx_rates"}

\* C3: a failed chunk ends the run. The step that fails sends nothing, rolls
\* nothing back and leaves every answered chunk persisted (in a first run the
\* append-only tables hold exactly the answered records); from then on the
\* run sends no request and prints no 'Import complete': the only step left
\* is the next invocation, and it finds the store as it was.
C3_FailureEndsRun ==
    [][/\ (InsertFailed' /\ ~InsertFailed) =>
            /\ pc' = "failed"
            /\ store' = store
            /\ log' = log
            /\ net' = {}
            /\ ~printed'
            /\ AnsweredPersisted'
            /\ (completed = 0 /\ aborted = 0) =>
                  \A t \in AppendOnly :
                      BagCardinality(store'[t]) =
                          BodyRecords(PostsFor(t), Len(PostsFor(t)))
                              - (IF t = table THEN Len(log[Len(log)].body) ELSE 0)
       /\ InsertFailed =>
            /\ pc' = "start"
            /\ log' = <<>>
            /\ store' = store]_vars

\* the second chunk of a sheet failed after an earlier sheet was imported
C3_Witness ==
    /\ InsertFailed
    /\ pc = "failed"
    /\ Len(PostsFor(table)) >= 2
    /\ store[table] # EmptyBag
    /\ \E t \in Tables : t # table /\ store[t] # EmptyBag

\* C4 as stated: a request asks for duplicate merging if and only if its
\* table has a uniqueness constraint.
C4_MergeIffConstraint ==
    \A k \in 1..Len(log) :
        IsPost(log[k]) =>
            ((log[k].prefer = "resolution=merge-duplicates" \/ log[k].on_conflict # <<>>)
                <=> log[k].table \in Constrained)

\* C4 amended: every request carries the merge-duplicates preference, also
\* for the append-only tables; what a request has if and only if its table
\* has a uniqueness constraint is the on_conflict key, which then names the
\* columns of that constraint.
C4_ConflictKeyIffConstraint ==
    \A k \in 1..Len(log) :
        IsPost(log[k]) =>
            /\ log[k].prefer = "resolution=merge-duplicates"
            /\ log[k].on_conflict # <<>> <=> log[k].table \in Constrained
            /\ log[k].table = "raw_ledger" => log[k].on_conflict = <<"user_id", "idempotency_key">>
            /\ log[k].table = "merchant_map" => log[k].on_conflict = <<"user_id", "pattern">>
            /\ log[k].table = "fx_rates" => log[k].on_conflict = <<"user_id", "currency">>

\* a run has posted to a constrained and to an append-only table
C4_Witness ==
    /\ PostsFor("raw_ledger") # <<>>
    /\ PostsFor("recipients") # <<>>

\* C5: once a run has completed, the number of stored records of each
\* constrained table never changes again: a second run over the same
\* workbook leaves the counts of the first.
C5_RerunKeepsCounts ==
    [][completed >= 1 =>
          \A t \in Constrained : BagCardinality(store'[t]) = BagCardinality(store[t])]_vars

\* two complete runs over a ledger with rows sharing a key
C5_Witness ==
    /\ completed = 2
    /\ aborted = 0
    /\ pc = "done"
    /\ "RawLedger" \in DOMAIN workbook
    /\ BagCardinality(store["raw_ledger"]) > 0
    /\ BagCardinality(store["raw_ledger"]) < Len(workbook["RawLedger"])
    /\ BagCardinality(store["merchant_map"]) > 0
    /\ BagCardinality(store["fx_rates"]) > 0

\* C7: nothing is posted before the user is resolved. With an input missing
\* nothing is sent at all; the lookup is sent once at most; and while the
\* user is unresolved no workbook is opened, no sheet parsed and no insert
\* sent, also after the lookup has failed.
C7_IdentityFirst ==
    /\ Posts # <<>> => (user_id # NoUser /\ IsGet(log[1]))
    /\ (\E x \in EnvVars : ~env[x]) => (log = <<>> /\ net = {} /\ user_id = NoUser)
    /\ Len(SelectSeq(log, IsGet)) <= 1
    /\ user_id = NoUser => (~opened /\ parsed = <<>> /\ Posts = <<>>)
    /\ (pc = "failed" /\ user_id = NoUser) => net = {}

\* the lookup found no user and the run died with one request sent
C7_Witness ==
    /\ pc = "failed"
    /\ error = <<"No user found for", "FLOW_USER_EMAIL">>
    /\ Len(log) = 1
    /\ DOMAIN workbook # {}

\* the run died on a missing input
C7_WitnessConfig ==
    /\ pc = "failed"
    /\ ~env["FLOW_USER_EMAIL"]
    /\ log = <<>>

\* the rows of a sheet that its block keeps
Kept(name) ==
    IF name \in DOMAIN workbook THEN Len(Transform(name, TheUser, workbook[name])) ELSE 0

\* C9: after k complete runs and no aborted one, an append-only table holds
\* k times the kept rows of its sheet.
C9_AppendOnlyGrows ==
    (aborted = 0 /\ pc = "done") =>
        /\ BagCardinality(store["user_context"]) = completed * Kept("UserContext")
        /\ BagCardinality(store["recipients"]) = completed * Kept("Recipients")
        /\ BagCardinality(store["insights"]) = completed * Kept("Insights")

\* two complete runs have doubled the three append-only tables
C9_Witness ==
    /\ aborted = 0
    /\ pc = "done"
    /\ completed = 2
    /\ Kept("Recipients") > 200
    /\ BagCardinality(store["recipients"]) = 2 * Kept("Recipients")
    /\ BagCardinality(store["user_context"]) = 4
    /\ BagCardinality(store["insights"]) = 4

\* C10: the requests of a run follow the fixed sheet order, a request is
\* sent only when every earlier one has been answered, the sheets are parsed
\* in the fixed order, an absent sheet gets no request, and a run that
\* completes has parsed every present sheet and posted every one with rows.
C10_FixedSheetOrder ==
    /\ \A a \in 1..Len(Posts) : \A b \in a..Len(Posts) :
          Place(Posts[a].table) <= Place(Posts[b].table)
    /\ \A r \in net : r = log[Len(log)]
    /\ Cardinality(net) <= 1
    /\ \A k \in 1..Len(Posts) : FixedOrder[Place(Posts[k].table)] \in DOMAIN workbook
    /\ parsed = SelectSeq(FixedOrder,
                          LAMBDA n : n \in DOMAIN workbook
                                     /\ \E j \in 1..Len(parsed) : parsed[j] = n)
    /\ pc = "done" =>
          /\ parsed = SelectSeq(FixedOrder, LAMBDA n : n \in DOMAIN workbook)
          /\ \A k \in 1..6 : Kept(FixedOrder[k]) > 0 => PostsFor(FixedTables[k]) # <<>>

\* a run completed over a workbook lacking a sheet in the middle
C10_Witness ==
    /\ pc = "done"
    /\ "FXRates" \notin DOMAIN workbook
    /\ PostsFor("raw_ledger") # <<>>
    /\ PostsFor("merchant_map") # <<>>
    /\ PostsFor("insights") # <<>>
    /\ PostsFor("fx_rates") = <<>>

====
